---- MODULE Spec2Model ----
(***************************************************************************)
(* Model of the refmove crate: the by-move reference RefMove, the anchors  *)
(* StackAnchor / BoxAnchor / IdentityAnchor that produce it, extraction,   *)
(* decomposition to a raw pointer and the downcast of RefMove<dyn Any>.    *)
(*                                                                         *)
(* A client program creates values, wraps them in anchors, borrows         *)
(* handles, uses and consumes them, and lets anchors go out of scope, in   *)
(* every order the borrow checker admits.  Memory is a map from locations  *)
(* to cells; every content carries an identity so that the number of times *)
(* its destructor ran can be counted.                                      *)
(***************************************************************************)
EXTENDS Naturals, FiniteSets, Sequences, TLC

\* ---------------------------------------------------------------- bounds
MaxContents == 2
MaxAnchors == 2
MaxHandles == 2
MaxVal == 1

ContentIds == 1..MaxContents
AnchorIds == 1..MaxAnchors
HandleIds == 1..MaxHandles
CellIds == 1..(MaxContents + 1)
Vals == 0..MaxVal
\* concrete content types (two distinct TypeIds suffice for a mismatch)
Types == {"A", "B"}
Dyn == "dyn"
\* of the content types, the fixed-size arrays [T; n], and the view [T]
ArrayTypes == {"B"}
Slice == "slice"
\* the type tag of a cell that holds a RefMove value
Handle == "RefMove"

\* ------------------------------------------------------------- locations
StackLoc(a) == <<"stack", a>>
HeapLoc(k) == <<"heap", k>>
NoLoc == <<"none", 0>>
Locs == {StackLoc(a) : a \in AnchorIds} \cup {HeapLoc(k) : k \in CellIds}

VARIABLES
    mem,        \* Locs -> cell: the content bits that reside at a location
    heap,       \* CellIds -> "free" | "live" | "freed"
    boxes,      \* heap cells owned by a Box<T> of the client
    anchors,    \* AnchorIds -> anchor object
    handles,    \* HandleIds -> RefMove value
    owned,      \* ContentIds -> plain value held by the client after into_inner
    drops,      \* ContentIds -> number of runs of the content's destructor
    cur,        \* ContentIds -> value the client last gave the content
    nContents,  \* contents created so far
    panicked,   \* the thread is unwinding
    diag,       \* panic message
    last        \* the last operation and what it returned

vars == <<mem, heap, boxes, anchors, handles, owned, drops, cur, nContents,
          panicked, diag, last>>

NoCell == [cid |-> 0, val |-> 0, ty |-> "none", init |-> FALSE]
\* anchor: is_some and loc (StackAnchor, BoxAnchor: where content lives) or
\* content (IdentityAnchor: the Option, 0 for None) are the object's fields;
\* src is the lifetime parameter of an IdentityAnchor; history: given (the
\* storage the caller passed to anchor_from), cid (the content wrapped),
\* calls (borrow_move calls so far), out (the handle borrow_move returned)
NoAnchor == [st |-> "unused", kind |-> "none", is_some |-> FALSE, loc |-> NoLoc,
             content |-> 0, src |-> 0, given |-> NoLoc, cid |-> 0, calls |-> 0,
             out |-> 0]
\* handle: ptr is the field; view is the static pointee type, meta the TypeId
\* behind the vtable of a dyn pointer, src the anchor that 'a borrows from;
\* history: cid (the content the handle was created to own), failed (a
\* downcast of it returned Err)
NoHandle == [st |-> "unused", ptr |-> NoLoc, view |-> "none", meta |-> "none",
             src |-> 0, cid |-> 0, failed |-> FALSE]
NoOwned == [st |-> "none", val |-> 0]
NoLast == [op |-> "init", a |-> 0, h |-> 0, ptr |-> NoLoc, val |-> 0, ok |-> TRUE]

Init ==
    /\ mem = [l \in Locs |-> NoCell]
    /\ heap = [k \in CellIds |-> "free"]
    /\ boxes = {}
    /\ anchors = [a \in AnchorIds |-> NoAnchor]
    /\ handles = [h \in HandleIds |-> NoHandle]
    /\ owned = [c \in ContentIds |-> NoOwned]
    /\ drops = [c \in ContentIds |-> 0]
    /\ cur = [c \in ContentIds |-> 0]
    /\ nContents = 0
    /\ panicked = FALSE
    /\ diag = ""
    /\ last = NoLast

\* ---------------------------------------------------------------- helpers
Min(S) == CHOOSE x \in S : \A y \in S : x <= y

FreeAnchors == {a \in AnchorIds : anchors[a].st = "unused"}
FreeHandles == {h \in HandleIds : handles[h].st = "unused"}
FreeCells == {k \in CellIds : heap[k] = "free"}

\* A handle that still exists as a value: in the client's hands, or stored
\* in the Option of an IdentityAnchor or in the slot of a StackAnchor.
Exists(h) == handles[h].st \in {"live", "moved"}

\* &'a mut self of borrow_move: the anchor stays mutably borrowed while a
\* handle with lifetime 'a, or an IdentityAnchor<'a, T> built from one, exists.
Borrowed(a) ==
    \/ \E h \in HandleIds : Exists(h) /\ handles[h].src = a
    \/ \E b \in AnchorIds : anchors[b].st = "live" /\ anchors[b].src = a

\* the storage a handle points at is still there
ValidLoc(l) ==
    IF l[1] = "heap" THEN heap[l[2]] = "live"
    ELSE anchors[l[2]].st = "live"

\* the locations drop_in_place(ptr) visits: ptr, and when a RefMove resides
\* there, what RefMove::drop of that handle visits in turn
RECURSIVE DropChain(_)
DropChain(ptr) ==
    IF mem[ptr].ty = Handle
    THEN {ptr} \cup DropChain(handles[mem[ptr].val].ptr)
    ELSE {ptr}

\* the handles stored along the chain: their Drop runs
DroppedWith(ptr) == {mem[l].val : l \in {m \in DropChain(ptr) : mem[m].ty = Handle}}

DropInPlace(ptr) ==
    \* the destructor of whatever content resides at ptr runs once more
    [c \in ContentIds |->
        IF \E l \in DropChain(ptr) : mem[l].cid = c THEN drops[c] + 1 ELSE drops[c]]

Uninit(ptr) ==
    [l \in Locs |-> IF l \in DropChain(ptr) THEN [mem[l] EXCEPT !.init = FALSE]
                    ELSE mem[l]]

\* the handles of S have ceased to exist as values
Gone(hs, S, how) ==
    [h \in HandleIds |-> IF h \in S THEN [hs[h] EXCEPT !.st = how] ELSE hs[h]]

Op(op, a, h, ptr, val, ok) ==
    [op |-> op, a |-> a, h |-> h, ptr |-> ptr, val |-> val, ok |-> ok]

\* ------------------------------------------------------------ RefMove
\* RefMove::from_mut: the handle points at the ManuallyDrop slot's content
from_mut(reference, lt, c) ==
    [st |-> "live", ptr |-> reference, view |-> mem[reference].ty,
     meta |-> mem[reference].ty, src |-> lt, cid |-> c, failed |-> FALSE]

\* RefMove::from_ptr: the handle points at ptr, typed as the caller says
from_ptr(ptr, T, lt, c) ==
    [st |-> "live", ptr |-> ptr, view |-> T, meta |-> T, src |-> lt, cid |-> c,
     failed |-> FALSE]

\* ------------------------------------------------------------ anchors
NewStackAnchor(a, c) ==
    [st |-> "live", kind |-> "stack", is_some |-> TRUE, loc |-> StackLoc(a),
     content |-> 0, src |-> 0, given |-> StackLoc(a), cid |-> c, calls |-> 0,
     out |-> 0]

\* AnchorExt::anchor / StackAnchor::anchor_from: the value moves into the
\* anchor's inline ManuallyDrop slot
StackAnchor_anchor_from(a, v, ty) ==
    /\ ~panicked
    /\ nContents < MaxContents
    /\ a \in FreeAnchors /\ a = Min(FreeAnchors)
    /\ anchors' = [anchors EXCEPT ![a] = NewStackAnchor(a, nContents + 1)]
    /\ mem' = [mem EXCEPT ![StackLoc(a)] =
                  [cid |-> nContents + 1, val |-> v, ty |-> ty, init |-> TRUE]]
    /\ nContents' = nContents + 1
    /\ cur' = [cur EXCEPT ![nContents + 1] = v]
    /\ last' = Op("anchor", a, 0, NoLoc, 0, TRUE)
    /\ UNCHANGED <<heap, boxes, handles, owned, drops, panicked, diag>>

\* AnchorExt::anchor / StackAnchor::anchor_from with T = RefMove<'b, U>: the
\* handle moves into the slot, and the anchor's type carries 'b
StackAnchor_anchor_from_RefMove(a, h) ==
    /\ ~panicked
    /\ handles[h].st = "live"
    /\ a \in FreeAnchors /\ a = Min(FreeAnchors)
    /\ anchors' = [anchors EXCEPT ![a] =
                      [NewStackAnchor(a, handles[h].cid) EXCEPT
                          !.src = handles[h].src]]
    /\ mem' = [mem EXCEPT ![StackLoc(a)] =
                  [cid |-> 0, val |-> h, ty |-> Handle, init |-> TRUE]]
    /\ handles' = [handles EXCEPT ![h].st = "moved"]
    /\ last' = Op("anchor", a, 0, NoLoc, 0, TRUE)
    /\ UNCHANGED <<heap, boxes, owned, drops, cur, nContents, panicked, diag>>

\* the caller's Box::new(v): a fresh heap cell owned by a Box
BoxNew(k, v, ty) ==
    /\ ~panicked
    /\ nContents < MaxContents
    /\ k \in FreeCells /\ k = Min(FreeCells)
    /\ heap' = [heap EXCEPT ![k] = "live"]
    /\ boxes' = boxes \cup {k}
    /\ mem' = [mem EXCEPT ![HeapLoc(k)] =
                  [cid |-> nContents + 1, val |-> v, ty |-> ty, init |-> TRUE]]
    /\ nContents' = nContents + 1
    /\ cur' = [cur EXCEPT ![nContents + 1] = v]
    /\ last' = Op("box_new", 0, 0, NoLoc, 0, TRUE)
    /\ UNCHANGED <<anchors, handles, owned, drops, panicked, diag>>

NewBoxAnchor(k) ==
    [st |-> "live", kind |-> "box", is_some |-> TRUE, loc |-> HeapLoc(k),
     content |-> 0, src |-> 0, given |-> HeapLoc(k), cid |-> mem[HeapLoc(k)].cid,
     calls |-> 0, out |-> 0]

\* BoxAnchor::anchor_from as Box::new(ManuallyDrop::new(*content)): the
\* content moves to a new allocation and the caller's cell is freed
BoxAnchor_anchor_from_realloc(a, k) ==
    /\ ~panicked
    /\ k \in boxes
    /\ a \in FreeAnchors /\ a = Min(FreeAnchors)
    /\ \E n \in FreeCells :
          /\ n = Min(FreeCells)
          /\ heap' = [heap EXCEPT ![n] = "live", ![k] = "freed"]
          /\ mem' = [mem EXCEPT ![HeapLoc(n)] = mem[HeapLoc(k)],
                                 ![HeapLoc(k)].init = FALSE]
          /\ anchors' = [anchors EXCEPT ![a] =
                            [NewBoxAnchor(k) EXCEPT !.loc = HeapLoc(n)]]
    /\ boxes' = boxes \ {k}
    /\ last' = Op("anchor", a, 0, NoLoc, 0, TRUE)
    /\ UNCHANGED <<handles, owned, drops, cur, nContents, panicked, diag>>

\* AnchorExt::anchor_box / BoxAnchor::anchor_from:
\* Box::from_raw(Box::into_raw(content) as *mut ManuallyDrop<T>)
BoxAnchor_anchor_from(a, k) ==
    /\ ~panicked
    /\ k \in boxes
    /\ a \in FreeAnchors /\ a = Min(FreeAnchors)
    /\ anchors' = [anchors EXCEPT ![a] = NewBoxAnchor(k)]
    /\ boxes' = boxes \ {k}
    /\ last' = Op("anchor", a, 0, NoLoc, 0, TRUE)
    /\ UNCHANGED <<mem, heap, handles, owned, drops, cur, nContents, panicked, diag>>

\* AnchorExt::anchor_box / IdentityAnchor::anchor_from: content: Some(content)
IdentityAnchor_anchor_from(a, h) ==
    /\ ~panicked
    /\ handles[h].st = "live"
    /\ a \in FreeAnchors /\ a = Min(FreeAnchors)
    /\ anchors' = [anchors EXCEPT ![a] =
                      [st |-> "live", kind |-> "identity", is_some |-> FALSE,
                       loc |-> NoLoc, content |-> h, src |-> handles[h].src,
                       given |-> handles[h].ptr, cid |-> handles[h].cid,
                       calls |-> 0, out |-> 0]]
    /\ handles' = [handles EXCEPT ![h].st = "moved"]
    /\ last' = Op("anchor", a, 0, NoLoc, 0, TRUE)
    /\ UNCHANGED <<mem, heap, boxes, owned, drops, cur, nContents, panicked, diag>>

\* the panic messages
StackAnchor_msg_wrong == "double borrow_move from BoxAnchor"
StackAnchor_msg == "double borrow_move from StackAnchor"
BoxAnchor_msg == "double borrow_move from BoxAnchor"
IdentityAnchor_msg == "double borrow_move from IdentityAnchor"

\* a failed borrow_move that sets is_some again on its way out
Panic_restores_flag(op, a, msg) ==
    /\ panicked' = TRUE
    /\ diag' = msg
    /\ anchors' = [anchors EXCEPT ![a].calls = 2, ![a].is_some = TRUE]
    /\ last' = Op(op, a, 0, NoLoc, 0, FALSE)
    /\ UNCHANGED <<mem, heap, boxes, handles, owned, drops, cur, nContents>>

\* a failed assert! / expect: the call returns nothing and the thread unwinds
Panic(op, a, msg) ==
    /\ panicked' = TRUE
    /\ diag' = msg
    /\ anchors' = [anchors EXCEPT ![a].calls = 2]
    /\ last' = Op(op, a, 0, NoLoc, 0, FALSE)
    /\ UNCHANGED <<mem, heap, boxes, handles, owned, drops, cur, nContents>>

\* StackAnchor::borrow_move that forgets `self.is_some = false`
StackAnchor_borrow_move_keeps_flag(a) ==
    /\ ~panicked
    /\ anchors[a].st = "live" /\ anchors[a].kind = "stack"
    /\ ~Borrowed(a)
    /\ IF anchors[a].is_some
       THEN \E h \in FreeHandles :
              /\ h = Min(FreeHandles)
              /\ anchors' = [anchors EXCEPT ![a].out = h, ![a].calls = 1]
              /\ handles' = [handles EXCEPT ![h] =
                                from_mut(anchors[a].loc, a, anchors[a].cid)]
              /\ last' = Op("borrow_move", a, h, anchors[a].loc, 0, TRUE)
              /\ UNCHANGED <<mem, heap, boxes, owned, drops, cur, nContents, panicked, diag>>
       ELSE Panic("borrow_move", a, StackAnchor_msg)

\* StackAnchor::borrow_move
StackAnchor_borrow_move(a) ==
    /\ ~panicked
    /\ anchors[a].st = "live" /\ anchors[a].kind = "stack"
    /\ ~Borrowed(a)
    /\ IF anchors[a].is_some
       THEN \E h \in FreeHandles :
              /\ h = Min(FreeHandles)
              /\ anchors' = [anchors EXCEPT ![a].is_some = FALSE, ![a].out = h,
                                               ![a].calls = 1]
              /\ handles' = [handles EXCEPT ![h] =
                                from_mut(anchors[a].loc, a, anchors[a].cid)]
              /\ last' = Op("borrow_move", a, h, anchors[a].loc, 0, TRUE)
              /\ UNCHANGED <<mem, heap, boxes, owned, drops, cur, nContents, panicked, diag>>
       ELSE Panic("borrow_move", a, StackAnchor_msg)

\* &mut self.content taken as the address of the Box field inside the anchor
\* instead of the heap cell the Box points to
BoxAnchor_content_field(a) == StackLoc(a)

\* &mut self.content of a BoxAnchor, deref-coerced to &mut ManuallyDrop<T>:
\* the heap cell
BoxAnchor_content(a) == anchors[a].loc

\* BoxAnchor::borrow_move without the assert!: a drained anchor hands out a
\* handle again
BoxAnchor_borrow_move_unchecked(a) ==
    /\ ~panicked
    /\ anchors[a].st = "live" /\ anchors[a].kind = "box"
    /\ ~Borrowed(a)
    /\ \E h \in FreeHandles :
          /\ h = Min(FreeHandles)
          /\ anchors' = [anchors EXCEPT ![a].is_some = FALSE, ![a].out = h,
                                           ![a].calls = IF @ = 0 THEN 1 ELSE 2]
          /\ handles' = [handles EXCEPT ![h] =
                            from_mut(anchors[a].loc, a, anchors[a].cid)]
          /\ last' = Op("borrow_move", a, h, anchors[a].loc, 0, TRUE)
          /\ UNCHANGED <<mem, heap, boxes, owned, drops, cur, nContents, panicked, diag>>

\* BoxAnchor::borrow_move
BoxAnchor_borrow_move(a) ==
    /\ ~panicked
    /\ anchors[a].st = "live" /\ anchors[a].kind = "box"
    /\ ~Borrowed(a)
    /\ IF anchors[a].is_some
       THEN \E h \in FreeHandles :
              /\ h = Min(FreeHandles)
              /\ anchors' = [anchors EXCEPT ![a].is_some = FALSE, ![a].out = h,
                                               ![a].calls = 1]
              /\ handles' = [handles EXCEPT ![h] =
                                from_mut(BoxAnchor_content(a), a, anchors[a].cid)]
              /\ last' = Op("borrow_move", a, h, BoxAnchor_content(a), 0, TRUE)
              /\ UNCHANGED <<mem, heap, boxes, owned, drops, cur, nContents, panicked, diag>>
       ELSE Panic("borrow_move", a, BoxAnchor_msg)

\* IdentityAnchor::borrow_move that copies the stored handle out of the Option
\* (ptr::read of the field) instead of take(): the Option stays Some
IdentityAnchor_borrow_move_no_take(a) ==
    /\ ~panicked
    /\ anchors[a].st = "live" /\ anchors[a].kind = "identity"
    /\ ~Borrowed(a)
    /\ IF anchors[a].content # 0
       THEN \E h \in FreeHandles :
              /\ h = Min(FreeHandles)
              /\ anchors' = [anchors EXCEPT ![a].out = h, ![a].calls = 1]
              /\ handles' = [handles EXCEPT ![h] =
                                [handles[anchors[a].content] EXCEPT
                                    !.st = "live", !.src = a]]
              /\ last' = Op("borrow_move", a, h, handles[anchors[a].content].ptr, 0, TRUE)
              /\ UNCHANGED <<mem, heap, boxes, owned, drops, cur, nContents, panicked, diag>>
       ELSE Panic("borrow_move", a, IdentityAnchor_msg)

\* IdentityAnchor::borrow_move: self.content.take().expect(..)
IdentityAnchor_borrow_move(a) ==
    /\ ~panicked
    /\ anchors[a].st = "live" /\ anchors[a].kind = "identity"
    /\ ~Borrowed(a)
    /\ IF anchors[a].content # 0
       THEN LET h == anchors[a].content IN
              /\ anchors' = [anchors EXCEPT ![a].content = 0, ![a].out = h,
                                               ![a].calls = 1]
              /\ handles' = [handles EXCEPT ![h].st = "live", ![h].src = a]
              /\ last' = Op("borrow_move", a, h, handles[h].ptr, 0, TRUE)
              /\ UNCHANGED <<mem, heap, boxes, owned, drops, cur, nContents, panicked, diag>>
       ELSE Panic("borrow_move", a, IdentityAnchor_msg)

\* ------------------------------------------------------ handle operations
Live(h) == handles[h].st = "live"

\* impl Drop for RefMove that also deallocates a heap pointee, as Box does
RefMove_drop_frees(h) ==
    /\ Live(h)
    /\ drops' = DropInPlace(handles[h].ptr)
    /\ mem' = Uninit(handles[h].ptr)
    /\ heap' = IF handles[h].ptr[1] = "heap"
               THEN [heap EXCEPT ![handles[h].ptr[2]] = "freed"]
               ELSE heap
    /\ handles' = Gone(handles, {h} \cup DroppedWith(handles[h].ptr), "dropped")
    /\ last' = Op("drop", 0, 0, NoLoc, 0, TRUE)
    /\ UNCHANGED <<boxes, anchors, owned, cur, nContents, panicked, diag>>

\* impl Drop for RefMove: drop_in_place(self.ptr.as_ptr()); nothing is freed
RefMove_drop(h) ==
    /\ Live(h)
    /\ drops' = DropInPlace(handles[h].ptr)
    /\ mem' = Uninit(handles[h].ptr)
    /\ handles' = Gone(handles, {h} \cup DroppedWith(handles[h].ptr), "dropped")
    /\ last' = Op("drop", 0, 0, NoLoc, 0, TRUE)
    /\ UNCHANGED <<heap, boxes, anchors, owned, cur, nContents, panicked, diag>>

\* RefMove::into_inner without mem::forget(self): the handle's own Drop runs
\* when into_inner returns
into_inner_no_forget(h) ==
    /\ ~panicked
    /\ Live(h)
    /\ handles[h].view \in Types
    /\ owned' = [owned EXCEPT ![handles[h].cid] =
                    [st |-> "held", val |-> mem[handles[h].ptr].val]]
    /\ drops' = DropInPlace(handles[h].ptr)
    /\ mem' = Uninit(handles[h].ptr)
    /\ handles' = [handles EXCEPT ![h].st = "extracted"]
    /\ last' = Op("into_inner", 0, h, handles[h].ptr, mem[handles[h].ptr].val, TRUE)
    /\ UNCHANGED <<heap, boxes, anchors, cur, nContents, panicked, diag>>

\* RefMove::into_inner: ptr::read the content out, mem::forget(self)
into_inner(h) ==
    /\ ~panicked
    /\ Live(h)
    /\ handles[h].view \in Types
    /\ owned' = [owned EXCEPT ![handles[h].cid] =
                    [st |-> "held", val |-> mem[handles[h].ptr].val]]
    /\ mem' = Uninit(handles[h].ptr)
    /\ handles' = [handles EXCEPT ![h].st = "extracted"]
    /\ last' = Op("into_inner", 0, h, handles[h].ptr, mem[handles[h].ptr].val, TRUE)
    /\ UNCHANGED <<heap, boxes, anchors, drops, cur, nContents, panicked, diag>>

\* the extracted value reaches the end of its own scope
DropValue(c) ==
    /\ owned[c].st = "held"
    /\ owned' = [owned EXCEPT ![c].st = "dropped"]
    /\ drops' = [drops EXCEPT ![c] = @ + 1]
    /\ last' = Op("drop", 0, 0, NoLoc, 0, TRUE)
    /\ UNCHANGED <<mem, heap, boxes, anchors, handles, cur, nContents, panicked, diag>>

\* RefMove::into_ptr without mem::forget(this): the handle's Drop runs when
\* into_ptr returns
into_ptr_no_forget(h) ==
    /\ ~panicked
    /\ Live(h)
    /\ drops' = DropInPlace(handles[h].ptr)
    /\ mem' = Uninit(handles[h].ptr)
    /\ handles' = [handles EXCEPT ![h].st = "raw"]
    /\ last' = Op("into_ptr", 0, h, handles[h].ptr, 0, TRUE)
    /\ UNCHANGED <<heap, boxes, anchors, owned, cur, nContents, panicked, diag>>

\* RefMove::into_ptr: mem::forget(this), the raw pointer is returned
into_ptr(h) ==
    /\ ~panicked
    /\ Live(h)
    /\ handles' = [handles EXCEPT ![h].st = "raw"]
    /\ last' = Op("into_ptr", 0, h, handles[h].ptr, 0, TRUE)
    /\ UNCHANGED <<mem, heap, boxes, anchors, owned, drops, cur, nContents, panicked, diag>>

\* RefMove::from_ptr on the pointer into_ptr returned for handle h.  The
\* function is unsafe: the caller wraps the pointer once, while the pointee
\* is valid and initialised, with the lifetime the decomposed handle had,
\* that lifetime still running.
RefMove_from_ptr(h) ==
    /\ ~panicked
    /\ handles[h].st = "raw"
    /\ ValidLoc(handles[h].ptr) /\ mem[handles[h].ptr].init
    /\ handles[h].src \in AnchorIds /\ anchors[handles[h].src].st = "live"
    /\ \E n \in FreeHandles :
          /\ n = Min(FreeHandles)
          /\ handles' = [handles EXCEPT
                           ![h].st = "rewrapped",
                           ![n] = [from_ptr(handles[h].ptr, handles[h].view,
                                            handles[h].src, handles[h].cid)
                                      EXCEPT !.meta = handles[h].meta]]
    /\ last' = Op("from_ptr", 0, 0, NoLoc, 0, TRUE)
    /\ UNCHANGED <<mem, heap, boxes, anchors, owned, drops, cur, nContents, panicked, diag>>

\* impl Deref for RefMove: self.ptr.as_ref() reads the content at ptr
deref(h) == mem[handles[h].ptr].val

\* impl DerefMut for RefMove: a write through self.ptr.as_mut()
deref_mut(h, v) ==
    /\ ~panicked
    /\ Live(h)
    /\ handles[h].view # Handle
    /\ mem' = [mem EXCEPT ![handles[h].ptr].val = v]
    /\ cur' = [cur EXCEPT ![handles[h].cid] = v]
    /\ last' = Op("deref_mut", 0, 0, NoLoc, 0, TRUE)
    /\ UNCHANGED <<heap, boxes, anchors, handles, owned, drops, nContents, panicked, diag>>

\* impl CoerceUnsized: RefMove<T> becomes RefMove<dyn Any>, the vtable of T
\* travels in the pointer's metadata
CoerceUnsized(h) ==
    /\ ~panicked
    /\ Live(h)
    /\ handles[h].view \in Types
    /\ handles' = [handles EXCEPT ![h].view = Dyn]
    /\ last' = Op("coerce", 0, 0, NoLoc, 0, TRUE)
    /\ UNCHANGED <<mem, heap, boxes, anchors, owned, drops, cur, nContents, panicked, diag>>

\* the type test inverted
is_inverted(h, T) == handles[h].meta # T

\* self.is::<T>(): the TypeId behind the vtable against TypeId::of::<T>()
is(h, T) == handles[h].meta = T

\* downcast that casts without asking is::<T>()
downcast_unchecked(h, T) ==
    /\ ~panicked
    /\ Live(h)
    /\ handles[h].view = Dyn
    /\ \E n \in FreeHandles :
          /\ n = Min(FreeHandles)
          /\ handles' = [handles EXCEPT
                           ![h].st = "cast",
                           ![n] = from_ptr(handles[h].ptr, T, handles[h].src,
                                           handles[h].cid)]
          /\ last' = Op("downcast", 0, n, handles[h].ptr, mem[handles[h].ptr].val, TRUE)
    /\ UNCHANGED <<mem, heap, boxes, anchors, owned, drops, cur, nContents, panicked, diag>>

\* RefMove<dyn Any>::downcast / RefMove<dyn Any + Send>::downcast
downcast(h, T) ==
    /\ ~panicked
    /\ Live(h)
    /\ handles[h].view = Dyn
    /\ IF is(h, T)
       THEN \E n \in FreeHandles :
              /\ n = Min(FreeHandles)
              /\ handles' = [handles EXCEPT
                               ![h].st = "cast",
                               ![n] = from_ptr(handles[h].ptr, T, handles[h].src,
                                               handles[h].cid)]
              /\ last' = Op("downcast", 0, n, handles[h].ptr, mem[handles[h].ptr].val, TRUE)
       ELSE /\ handles' = [handles EXCEPT ![h].failed = TRUE]
            /\ last' = Op("downcast", 0, h, handles[h].ptr, mem[handles[h].ptr].val, FALSE)
    /\ UNCHANGED <<mem, heap, boxes, anchors, owned, drops, cur, nContents, panicked, diag>>

\* ------------------------------------------------------------ BorrowMove
\* impl BorrowMove<T> for T: borrow_move returns self
BorrowMove_T_borrow_move(h) ==
    /\ ~panicked
    /\ Live(h)
    /\ last' = Op("reborrow", 0, h, handles[h].ptr, 0, TRUE)
    /\ UNCHANGED <<mem, heap, boxes, anchors, handles, owned, drops, cur, nContents,
                   panicked, diag>>

\* impl BorrowMove<[T]> for [T; n]: borrow_move returns self, unsized to
\* RefMove<[T]> at the return
BorrowMove_array_borrow_move(h) ==
    /\ ~panicked
    /\ Live(h)
    /\ handles[h].view \in ArrayTypes
    /\ handles' = [handles EXCEPT ![h].view = Slice]
    /\ last' = Op("reborrow", 0, h, handles[h].ptr, 0, TRUE)
    /\ UNCHANGED <<mem, heap, boxes, anchors, owned, drops, cur, nContents,
                   panicked, diag>>

\* borrow_move of RefMove<'b, RefMove<'a, T>> through an into_inner that does
\* not forget self: the outer handle's Drop runs on the slot it read from
BorrowMove_RefMove_borrow_move_drops_outer(o) ==
    /\ ~panicked
    /\ Live(o)
    /\ handles[o].view = Handle
    /\ LET i == deref(o) IN
          /\ handles' = [handles EXCEPT ![o].st = "reborrowed",
                                         ![i].st = "live",
                                         ![i].src = handles[o].src]
          /\ last' = Op("reborrow", 0, i, handles[i].ptr, 0, TRUE)
    /\ drops' = DropInPlace(handles[o].ptr)
    /\ mem' = Uninit(handles[o].ptr)
    /\ UNCHANGED <<heap, boxes, anchors, owned, cur, nContents, panicked, diag>>

\* impl BorrowMove<T> for RefMove<'a, T>: self.into_inner(), that is, the
\* inner handle is read out of the slot and the outer handle forgotten; the
\* result is typed RefMove<'b, T>, 'b the outer handle's lifetime
BorrowMove_RefMove_borrow_move(o) ==
    /\ ~panicked
    /\ Live(o)
    /\ handles[o].view = Handle
    /\ LET i == deref(o) IN
          /\ handles' = [handles EXCEPT ![o].st = "reborrowed",
                                         ![i].st = "live",
                                         ![i].src = handles[o].src]
          /\ last' = Op("reborrow", 0, i, handles[i].ptr, 0, TRUE)
    /\ mem' = [mem EXCEPT ![handles[o].ptr].init = FALSE]
    /\ UNCHANGED <<heap, boxes, anchors, owned, drops, cur, nContents, panicked, diag>>

\* ------------------------------------------------------------ fmt::Debug
\* What fmt hands to the formatter: the struct name, then the fields as
\* <<name, value>> for the flag and <<name, reference>> for the content.
\* fmt takes &self: it is callable on a live anchor that is not borrowed.

\* Debug for StackAnchor that prints the content field unconditionally
StackAnchor_fmt_always_content(a) ==
    <<"StackAnchor", <<"is_some", anchors[a].is_some>>,
                     <<"content", anchors[a].loc>>>>

\* impl Debug for StackAnchor
StackAnchor_fmt(a) ==
    IF anchors[a].is_some
    THEN <<"StackAnchor", <<"is_some", anchors[a].is_some>>,
                          <<"content", anchors[a].loc>>>>
    ELSE <<"StackAnchor", <<"is_some", anchors[a].is_some>>>>

\* impl Debug for BoxAnchor
BoxAnchor_fmt(a) ==
    IF anchors[a].is_some
    THEN <<"BoxAnchor", <<"is_some", anchors[a].is_some>>,
                        <<"content", BoxAnchor_content(a)>>>>
    ELSE <<"BoxAnchor", <<"is_some", anchors[a].is_some>>>>

\* the locations the formatter reads when it prints the fields: the content
\* a reference leads to and, through Debug for RefMove (which formats the
\* pointee), whatever a handle stored there leads to
FmtReads(out) ==
    UNION {DropChain(out[i][2]) :
              i \in {j \in 2..Len(out) : out[j][1] = "content"}}

\* ---------------------------------------------------- anchors going away
\* impl Drop for StackAnchor without the is_some test
StackAnchor_drop_unconditional(a) ==
    /\ anchors[a].st = "live" /\ anchors[a].kind = "stack"
    /\ ~Borrowed(a)
    /\ drops' = DropInPlace(anchors[a].loc)
    /\ mem' = Uninit(anchors[a].loc)
    /\ handles' = Gone(handles, DroppedWith(anchors[a].loc), "dropped")
    /\ anchors' = [anchors EXCEPT ![a].st = "dropped"]
    /\ last' = Op("drop", 0, 0, NoLoc, 0, TRUE)
    /\ UNCHANGED <<heap, boxes, owned, cur, nContents, panicked, diag>>

\* impl Drop for StackAnchor: if self.is_some { ManuallyDrop::drop(content) }
\* A handle still stored in the slot of a drained anchor (its owner was
\* decomposed with into_ptr) ends with the slot, its Drop never run.
StackAnchor_drop(a) ==
    /\ anchors[a].st = "live" /\ anchors[a].kind = "stack"
    /\ ~Borrowed(a)
    /\ IF anchors[a].is_some
       THEN /\ drops' = DropInPlace(anchors[a].loc)
            /\ mem' = Uninit(anchors[a].loc)
            /\ handles' = Gone(handles, DroppedWith(anchors[a].loc), "dropped")
       ELSE /\ UNCHANGED <<drops, mem>>
            /\ handles' = IF mem[anchors[a].loc].init
                          THEN Gone(handles, DroppedWith(anchors[a].loc), "leaked")
                          ELSE handles
    /\ anchors' = [anchors EXCEPT ![a].st = "dropped"]
    /\ last' = Op("drop", 0, 0, NoLoc, 0, TRUE)
    /\ UNCHANGED <<heap, boxes, owned, cur, nContents, panicked, diag>>

\* impl Drop for BoxAnchor without the is_some test
BoxAnchor_drop_unconditional(a) ==
    /\ anchors[a].st = "live" /\ anchors[a].kind = "box"
    /\ ~Borrowed(a)
    /\ drops' = DropInPlace(anchors[a].loc)
    /\ mem' = Uninit(anchors[a].loc)
    /\ heap' = [heap EXCEPT ![anchors[a].loc[2]] = "freed"]
    /\ anchors' = [anchors EXCEPT ![a].st = "dropped"]
    /\ last' = Op("drop", 0, 0, NoLoc, 0, TRUE)
    /\ UNCHANGED <<boxes, handles, owned, cur, nContents, panicked, diag>>

\* impl Drop for BoxAnchor, then the drop glue of Box<ManuallyDrop<T>>, which
\* deallocates the cell and runs no destructor
BoxAnchor_drop(a) ==
    /\ anchors[a].st = "live" /\ anchors[a].kind = "box"
    /\ ~Borrowed(a)
    /\ IF anchors[a].is_some
       THEN /\ drops' = DropInPlace(anchors[a].loc)
            /\ mem' = Uninit(anchors[a].loc)
       ELSE UNCHANGED <<drops, mem>>
    /\ heap' = [heap EXCEPT ![anchors[a].loc[2]] = "freed"]
    /\ anchors' = [anchors EXCEPT ![a].st = "dropped"]
    /\ last' = Op("drop", 0, 0, NoLoc, 0, TRUE)
    /\ UNCHANGED <<boxes, handles, owned, cur, nContents, panicked, diag>>

\* IdentityAnchor whose content is kept in a ManuallyDrop: nothing is dropped
\* with the anchor
IdentityAnchor_drop_forgets(a) ==
    /\ anchors[a].st = "live" /\ anchors[a].kind = "identity"
    /\ ~Borrowed(a)
    /\ handles' = IF anchors[a].content # 0
                  THEN [handles EXCEPT ![anchors[a].content].st = "raw"]
                  ELSE handles
    /\ anchors' = [anchors EXCEPT ![a].st = "dropped"]
    /\ last' = Op("drop", 0, 0, NoLoc, 0, TRUE)
    /\ UNCHANGED <<mem, drops, heap, boxes, owned, cur, nContents, panicked, diag>>

\* IdentityAnchor has no Drop impl: the drop glue drops content: Option<RefMove>,
\* that is, RefMove::drop of the stored handle when it is still Some
IdentityAnchor_drop(a) ==
    /\ anchors[a].st = "live" /\ anchors[a].kind = "identity"
    /\ ~Borrowed(a)
    /\ IF anchors[a].content # 0
       THEN /\ drops' = DropInPlace(handles[anchors[a].content].ptr)
            /\ mem' = Uninit(handles[anchors[a].content].ptr)
            /\ handles' = Gone(handles,
                               {anchors[a].content} \cup
                                   DroppedWith(handles[anchors[a].content].ptr),
                               "dropped")
       ELSE UNCHANGED <<drops, mem, handles>>
    /\ anchors' = [anchors EXCEPT ![a].st = "dropped"]
    /\ last' = Op("drop", 0, 0, NoLoc, 0, TRUE)
    /\ UNCHANGED <<heap, boxes, owned, cur, nContents, panicked, diag>>

\* ------------------------------------------------------------------ spec
Next ==
    \/ \E a \in AnchorIds, v \in Vals, ty \in Types : StackAnchor_anchor_from(a, v, ty)
    \/ \E k \in CellIds, v \in Vals, ty \in Types : BoxNew(k, v, ty)
    \/ \E a \in AnchorIds, k \in CellIds : BoxAnchor_anchor_from(a, k)
    \/ \E a \in AnchorIds, h \in HandleIds : IdentityAnchor_anchor_from(a, h)
    \/ \E a \in AnchorIds, h \in HandleIds : StackAnchor_anchor_from_RefMove(a, h)
    \/ \E a \in AnchorIds : StackAnchor_borrow_move(a)
    \/ \E a \in AnchorIds : BoxAnchor_borrow_move(a)
    \/ \E a \in AnchorIds : IdentityAnchor_borrow_move(a)
    \/ \E h \in HandleIds : RefMove_drop(h)
    \/ \E h \in HandleIds : into_inner(h)
    \/ \E c \in ContentIds : DropValue(c)
    \/ \E h \in HandleIds : into_ptr(h)
    \/ \E h \in HandleIds : RefMove_from_ptr(h)
    \/ \E h \in HandleIds, v \in Vals : deref_mut(h, v)
    \/ \E h \in HandleIds : CoerceUnsized(h)
    \/ \E h \in HandleIds, T \in Types : downcast(h, T)
    \/ \E h \in HandleIds : BorrowMove_T_borrow_move(h)
    \/ \E h \in HandleIds : BorrowMove_array_borrow_move(h)
    \/ \E o \in HandleIds : BorrowMove_RefMove_borrow_move(o)
    \/ \E a \in AnchorIds : StackAnchor_drop(a)
    \/ \E a \in AnchorIds : BoxAnchor_drop(a)
    \/ \E a \in AnchorIds : IdentityAnchor_drop(a)

Spec == Init /\ [][Next]_vars

\* ====================================================================
\* Properties
\* ====================================================================
BorrowMoveStep(a) ==
    \/ StackAnchor_borrow_move(a)
    \/ BoxAnchor_borrow_move(a)
    \/ IdentityAnchor_borrow_move(a)

AnchorDropStep(a) ==
    \/ StackAnchor_drop(a)
    \/ BoxAnchor_drop(a)
    \/ IdentityAnchor_drop(a)

\* the anchor's single borrow_move was taken and the handle it returned was
\* dropped without being extracted, and the anchor is gone too
HandleDroppedAnchorGone(a) ==
    /\ anchors[a].st = "dropped"
    /\ anchors[a].calls = 1
    /\ anchors[a].out # 0
    /\ handles[anchors[a].out].st = "dropped"

\* C1: for an anchor of any variant, once the handle from its one borrow_move
\* has been dropped unextracted and the anchor has gone out of scope, the
\* destructor of the wrapped content has run exactly once.
C1_HandleDropDestroysOnce ==
    \A a \in AnchorIds :
        HandleDroppedAnchorGone(a) => drops[anchors[a].cid] = 1

\* a stack anchor and an identity anchor over its handle have both been
\* through borrow, handle drop and anchor drop
C1_Witness ==
    \E a, b \in AnchorIds :
        /\ anchors[a].kind = "stack" /\ HandleDroppedAnchorGone(a)
        /\ anchors[b].kind = "identity" /\ HandleDroppedAnchorGone(b)
        /\ drops[anchors[a].cid] = 1

\* C2: once a handle has been extracted, the content's destructor has run
\* only if the extracted value itself was dropped, and then exactly once;
\* this stays so when the consumed handle and the anchor go out of scope.
C2_ExtractDisarms ==
    \A h \in HandleIds :
        handles[h].st = "extracted" =>
            /\ owned[handles[h].cid].st \in {"held", "dropped"}
            /\ drops[handles[h].cid] =
                   IF owned[handles[h].cid].st = "dropped" THEN 1 ELSE 0

\* extracted, the anchor gone, the extracted value dropped
C2_Witness ==
    \E h \in HandleIds, a \in AnchorIds :
        /\ handles[h].st = "extracted"
        /\ anchors[a].out = h /\ anchors[a].st = "dropped"
        /\ owned[handles[h].cid].st = "dropped"
        /\ drops[handles[h].cid] = 1

\* C3: a borrow_move call on an anchor that was never borrowed returns a live
\* handle; a call on an anchor borrowed before panics, returns no handle and
\* creates none.
C3_SecondBorrowPanics ==
    [][\A a \in AnchorIds :
          BorrowMoveStep(a) =>
              IF anchors[a].calls = 0
              THEN /\ ~panicked'
                   /\ last'.ok /\ last'.h \in HandleIds
                   /\ handles'[last'.h].st = "live"
              ELSE /\ panicked'
                   /\ ~last'.ok /\ last'.h = 0
                   /\ handles' = handles]_vars

\* the last step was a second call that panicked, made after the handle of
\* the first call had been dropped or extracted
C3_Witness ==
    /\ panicked
    /\ \E a \in AnchorIds :
          /\ anchors[a].calls = 2
          /\ handles[anchors[a].out].st \in {"extracted", "dropped"}
          /\ last.op = "borrow_move" /\ ~last.ok

\* C4: the destruction of an anchor runs the content's destructor exactly
\* once when borrow_move was never called on it, and runs no destructor at
\* all when it was.
C4_AnchorDrop ==
    [][\A a \in AnchorIds :
          AnchorDropStep(a) =>
              drops' = IF anchors[a].calls = 0
                       THEN [drops EXCEPT ![anchors[a].cid] = @ + 1]
                       ELSE drops]_vars

\* one anchor was dropped unborrowed, another after its borrow
C4_Witness ==
    \E a, b \in AnchorIds :
        /\ anchors[a].st = "dropped" /\ anchors[a].calls = 0
        /\ drops[anchors[a].cid] = 1
        /\ anchors[b].st = "dropped" /\ anchors[b].calls = 1

\* the anchor still answers for the destruction of its content
HoldsContent(a) ==
    /\ anchors[a].st = "live"
    /\ IF anchors[a].kind = "identity" THEN anchors[a].content # 0
       ELSE anchors[a].is_some

\* the location of the content an anchor wraps
ContentLoc(a) ==
    IF anchors[a].kind = "identity" THEN anchors[a].given ELSE anchors[a].loc

\* C5: an anchor that holds content has no live handle over that content, a
\* live handle over an anchor's content means the anchor is drained, and no
\* two handles that exist point at the same location.
C5_ExclusiveOwner ==
    /\ \A a \in AnchorIds, h \in HandleIds :
          (HoldsContent(a) /\ Live(h)) => handles[h].ptr # ContentLoc(a)
    /\ \A a \in AnchorIds, h \in HandleIds :
          (anchors[a].st = "live" /\ Live(h) /\ handles[h].ptr = ContentLoc(a))
              => ~HoldsContent(a)
    /\ \A h, g \in HandleIds :
          (Exists(h) /\ Exists(g) /\ h # g) => handles[h].ptr # handles[g].ptr

\* two handles are live at once and the anchors they come from are drained
C5_Witness ==
    /\ \E h, g \in HandleIds : h # g /\ Live(h) /\ Live(g)
    /\ \A a \in AnchorIds : anchors[a].st = "live" /\ anchors[a].calls = 1

\* the concrete type of the content a handle points at
ConcreteType(h) == mem[handles[h].ptr].ty

\* a handle that downcast built over the location of a handle it consumed
Narrowed(n) ==
    /\ handles[n].st # "unused"
    /\ \E g \in HandleIds :
          g < n /\ handles[g].st = "cast" /\ handles[g].ptr = handles[n].ptr

\* the destructor count of a handle's content once the handle is gone
DestroyedOnceThrough(h) ==
    /\ handles[h].st = "dropped" => drops[handles[h].cid] = 1
    /\ handles[h].st = "extracted" =>
          drops[handles[h].cid] =
              IF owned[handles[h].cid].st = "dropped" THEN 1 ELSE 0

\* C6: downcast of a dyn handle to the concrete type of its content returns
\* Ok with a new live handle at the same location, typed as that type, whose
\* dereferenced value is the one the input handle had; the input handle is
\* consumed, memory and destructor counts are untouched by the call, and the
\* content is destroyed exactly once through the narrowed handle (or through
\* the value extracted from it).
C6_DowncastMatch ==
    /\ [][\A h \in HandleIds, T \in Types :
             (downcast(h, T) /\ T = ConcreteType(h)) =>
                 /\ last'.ok
                 /\ last'.h \in HandleIds \ {h}
                 /\ handles'[h].st = "cast"
                 /\ handles'[last'.h].st = "live"
                 /\ handles'[last'.h].ptr = handles[h].ptr
                 /\ handles'[last'.h].view = T
                 /\ mem'[handles'[last'.h].ptr].val = deref(h)
                 /\ mem'[handles'[last'.h].ptr].init
                 /\ drops' = drops]_vars
    /\ [](\A n \in HandleIds : Narrowed(n) => DestroyedOnceThrough(n))

\* a narrowed handle was dropped, and its content was destroyed once
C6_Witness ==
    \E n \in HandleIds :
        /\ Narrowed(n) /\ handles[n].st = "dropped"
        /\ handles[n].view = ConcreteType(n)
        /\ drops[handles[n].cid] = 1

\* C7: downcast of a dyn handle to a type other than the concrete type of
\* its content returns Err with the input handle: same location, still live,
\* memory and destructor counts untouched; downcast never panics and returns
\* either Ok with a new handle or Err with the input handle; a handle that
\* came back from failed attempts still destroys its content exactly once.
C7_DowncastMismatch ==
    /\ [][\A h \in HandleIds, T \in Types :
             (downcast(h, T) /\ T # ConcreteType(h)) =>
                 /\ ~last'.ok
                 /\ last'.h = h
                 /\ handles' = [handles EXCEPT ![h].failed = TRUE]
                 /\ mem' = mem
                 /\ drops' = drops]_vars
    /\ [][\A h \in HandleIds, T \in Types :
             downcast(h, T) =>
                 /\ ~panicked'
                 /\ \/ last'.ok /\ last'.h # h /\ handles'[last'.h].st = "live"
                    \/ ~last'.ok /\ last'.h = h /\ handles'[h].st = "live"]_vars
    /\ [](\A h \in HandleIds : handles[h].failed => DestroyedOnceThrough(h))

\* a handle came back from a failed downcast, was dropped, and its content
\* was destroyed once
C7_Witness ==
    \E h \in HandleIds :
        /\ handles[h].failed /\ handles[h].st = "dropped"
        /\ drops[handles[h].cid] = 1

\* C8: a BoxAnchor keeps its content in the heap cell the caller's Box
\* owned: the anchor's pointer, the handle borrow_move returns and the place
\* where an unborrowed anchor destroys the content are all that cell; every
\* allocated cell is one a caller's Box::new made, and every content resides
\* at exactly one location.
C8_BoxAddressStable ==
    /\ \A a \in AnchorIds :
          anchors[a].kind = "box" =>
              /\ anchors[a].loc = anchors[a].given
              /\ mem[anchors[a].given].cid = anchors[a].cid
              /\ anchors[a].out # 0 =>
                     handles[anchors[a].out].ptr = anchors[a].given
              /\ (anchors[a].st = "dropped" /\ anchors[a].calls = 0) =>
                     /\ ~mem[anchors[a].given].init
                     /\ drops[anchors[a].cid] = 1
    /\ {k \in CellIds : heap[k] # "free"} =
           boxes \cup {k \in CellIds :
                          \E a \in AnchorIds : anchors[a].kind = "box"
                                               /\ anchors[a].given = HeapLoc(k)}
    /\ \A c \in 1..nContents : Cardinality({l \in Locs : mem[l].cid = c}) = 1

\* one box anchor was borrowed and one was dropped unborrowed
C8_Witness ==
    \E a, b \in AnchorIds :
        /\ anchors[a].kind = "box" /\ anchors[a].out # 0
        /\ handles[anchors[a].out].ptr = anchors[a].given
        /\ anchors[b].kind = "box" /\ anchors[b].st = "dropped"
        /\ anchors[b].calls = 0

\* the diagnostic that names an anchor variant
VariantDiag(kind) ==
    CASE kind = "stack" -> "double borrow_move from StackAnchor"
      [] kind = "box" -> "double borrow_move from BoxAnchor"
      [] kind = "identity" -> "double borrow_move from IdentityAnchor"
      [] OTHER -> "?"

Misused == {a \in AnchorIds : anchors[a].calls = 2}

\* C9 as stated: the diagnostic of a double borrow_move identifies the
\* misused anchor instance, that is, no other anchor of the program would
\* have produced the same diagnostic.
C9_DiagIdentifiesInstance ==
    panicked =>
        \A a \in Misused, b \in AnchorIds :
            (b # a /\ anchors[b].st # "unused") =>
                VariantDiag(anchors[b].kind) # diag

\* C9 as amended: the thread panics exactly when an anchor is borrowed a
\* second time, in that very call, and the diagnostic names the variant of
\* the misused anchor (StackAnchor, BoxAnchor or IdentityAnchor).
C9_DiagNamesVariant ==
    /\ panicked <=> Misused # {}
    /\ Cardinality(Misused) <= 1
    /\ \A a \in Misused : diag = VariantDiag(anchors[a].kind)
    /\ ~panicked => diag = ""
    /\ (last.op = "borrow_move" /\ ~last.ok) => last.a \in Misused

\* a stack anchor was borrowed twice while another stack anchor exists
C9_Witness ==
    /\ panicked
    /\ \E a \in Misused, b \in AnchorIds :
          /\ b # a
          /\ anchors[a].kind = "stack" /\ anchors[b].kind = "stack"
          /\ diag = VariantDiag("stack")

\* what a handle stored in a slot leads to: valid, initialised storage that
\* holds the content's current value, or again such a handle
RECURSIVE ReadsContent(_)
ReadsContent(h) ==
    /\ ValidLoc(handles[h].ptr)
    /\ mem[handles[h].ptr].init
    /\ IF handles[h].view = Handle
       THEN /\ handles[deref(h)].st = "moved"
            /\ handles[deref(h)].cid = handles[h].cid
            /\ ReadsContent(deref(h))
       ELSE deref(h) = cur[handles[h].cid]

\* C10: a live handle points at valid, initialised storage and its
\* dereference yields the value that was wrapped or, after writes through
\* deref_mut, the value written last (for a handle to a handle: the handle
\* that was wrapped, itself over valid, initialised storage that holds that
\* value); into_inner returns that same value.
C10_DerefYieldsContent ==
    /\ \A h \in HandleIds :
          Live(h) =>
              /\ ValidLoc(handles[h].ptr)
              /\ mem[handles[h].ptr].init
              /\ IF handles[h].view = Handle
                 THEN /\ handles[deref(h)].st = "moved"
                      /\ handles[deref(h)].cid = handles[h].cid
                      /\ ReadsContent(deref(h))
                 ELSE deref(h) = cur[handles[h].cid]
    /\ \A c \in ContentIds : owned[c].st = "held" => owned[c].val = cur[c]
    /\ last.op = "into_inner" => last.val = cur[handles[last.h].cid]

\* right after a write through deref_mut a live handle over a heap cell
\* reads 1, while a value 1 extracted from another handle is held
C10_Witness ==
    /\ \E h \in HandleIds :
          /\ Live(h) /\ handles[h].ptr[1] = "heap"
          /\ deref(h) = 1
    /\ \E c \in ContentIds : owned[c].st = "held" /\ owned[c].val = 1
    /\ last.op = "deref_mut"

\* the heap cell a BoxAnchor owns
Cell(a) == anchors[a].loc[2]

\* C11: dropping or extracting a handle leaves every allocation as it is;
\* a heap cell in use changes only from live to freed, and only in the
\* destruction of the BoxAnchor that owns it; that destruction finds the
\* cell live and frees it, so a cell is live while its anchor is and freed
\* (once) when the anchor is gone, whichever way the content went.
C11_CellFreedOnceByAnchor ==
    /\ [][\A h \in HandleIds :
             (RefMove_drop(h) \/ into_inner(h)) => heap' = heap]_vars
    /\ [][\A k \in CellIds :
             (heap[k] # "free" /\ heap'[k] # heap[k]) =>
                 /\ heap[k] = "live" /\ heap'[k] = "freed"
                 /\ \E a \in AnchorIds :
                       BoxAnchor_drop(a) /\ anchors[a].given = HeapLoc(k)]_vars
    /\ [][\A a \in AnchorIds :
             BoxAnchor_drop(a) =>
                 /\ heap[Cell(a)] = "live"
                 /\ heap' = [heap EXCEPT ![Cell(a)] = "freed"]]_vars
    /\ [](\A a \in AnchorIds :
             anchors[a].kind = "box" =>
                 /\ anchors[a].st = "live" => heap[Cell(a)] = "live"
                 /\ anchors[a].st = "dropped" => heap[Cell(a)] = "freed")

\* two box anchors are gone and their cells freed, one after its handle was
\* dropped, the other after its handle was extracted
C11_Witness ==
    \E a, b \in AnchorIds :
        /\ anchors[a].kind = "box" /\ anchors[a].st = "dropped"
        /\ anchors[a].out # 0 /\ handles[anchors[a].out].st = "dropped"
        /\ anchors[b].kind = "box" /\ anchors[b].st = "dropped"
        /\ anchors[b].out # 0 /\ handles[anchors[b].out].st = "extracted"
        /\ heap[Cell(a)] = "freed" /\ heap[Cell(b)] = "freed"

\* C12: into_ptr returns the location the handle held and consumes the
\* handle; destructor counts, memory, allocations, anchors (their flags
\* included) and all other handles are unchanged by the call.
C12_IntoPtrFrame ==
    [][\A h \in HandleIds :
          into_ptr(h) =>
              /\ last'.ptr = handles[h].ptr
              /\ handles'[h].st \notin {"live", "moved"}
              /\ \A g \in HandleIds \ {h} : handles'[g] = handles[g]
              /\ drops' = drops
              /\ anchors' = anchors
              /\ mem' = mem
              /\ heap' = heap]_vars

\* into_ptr has just returned the location of a handle over content that
\* is still intact
C12_Witness ==
    /\ last.op = "into_ptr"
    /\ handles[last.h].st = "raw"
    /\ last.ptr = handles[last.h].ptr
    /\ mem[last.ptr].init
    /\ drops[handles[last.h].cid] = 0

\* C13: borrow_move on an IdentityAnchor that holds its handle returns that
\* very handle, with the location, type and content it had, and touches
\* neither memory nor destructor counts; the content is destroyed exactly
\* once when the anchor is dropped unborrowed, when the returned handle is
\* dropped, and when the returned handle is extracted and the value dropped.
C13_IdentityPassThrough ==
    /\ [][\A a \in AnchorIds :
             (IdentityAnchor_borrow_move(a) /\ anchors[a].calls = 0) =>
                 /\ last'.h = anchors[a].content
                 /\ handles'[last'.h] =
                        [handles[last'.h] EXCEPT !.st = "live", !.src = a]
                 /\ last'.ptr = anchors[a].given
                 /\ mem' = mem
                 /\ drops' = drops]_vars
    /\ [](\A a \in AnchorIds :
             (anchors[a].kind = "identity" /\ anchors[a].st = "dropped") =>
                 /\ anchors[a].calls = 0 => drops[anchors[a].cid] = 1
                 /\ anchors[a].out # 0 => DestroyedOnceThrough(anchors[a].out))

\* an identity anchor handed its handle on, the handle was extracted, the
\* value dropped and the anchor dropped: one destruction
C13_Witness ==
    \E a \in AnchorIds :
        /\ anchors[a].kind = "identity" /\ anchors[a].st = "dropped"
        /\ anchors[a].out # 0
        /\ handles[anchors[a].out].st = "extracted"
        /\ owned[anchors[a].cid].st = "dropped"
        /\ drops[anchors[a].cid] = 1

\* what a reborrow leaves alone
ReborrowFrame ==
    /\ drops' = drops
    /\ anchors' = anchors
    /\ heap' = heap
    /\ owned' = owned

\* C14: BorrowMove::borrow_move creates and changes no anchor and runs no
\* destructor.  For T and for [T; n] the handle returned is the input handle
\* at its location (for the array, viewed as a slice), memory untouched.
\* For a handle to a handle the inner handle is returned, live, over the
\* location and content it had, and the outer handle is consumed without its
\* Drop; afterwards the innermost content is destroyed at most once, and
\* exactly once when the returned handle is dropped or the value extracted
\* from it is.
C14_Reborrow ==
    /\ [][\A h \in HandleIds :
             BorrowMove_T_borrow_move(h) =>
                 /\ last'.h = h /\ last'.ptr = handles[h].ptr
                 /\ handles' = handles
                 /\ mem' = mem
                 /\ ReborrowFrame]_vars
    /\ [][\A h \in HandleIds :
             BorrowMove_array_borrow_move(h) =>
                 /\ last'.h = h /\ last'.ptr = handles[h].ptr
                 /\ handles' = [handles EXCEPT ![h].view = Slice]
                 /\ mem' = mem
                 /\ ReborrowFrame]_vars
    /\ [][\A o \in HandleIds :
             BorrowMove_RefMove_borrow_move(o) =>
                 /\ last'.h = deref(o) /\ last'.h # o
                 /\ handles'[last'.h].st = "live"
                 /\ handles'[last'.h].ptr = handles[deref(o)].ptr
                 /\ handles'[last'.h].cid = handles[o].cid
                 /\ last'.ptr = handles[deref(o)].ptr
                 /\ mem'[last'.ptr] = mem[last'.ptr]
                 /\ mem'[last'.ptr].init
                 /\ handles'[o].st \notin {"live", "moved"}
                 /\ ReborrowFrame]_vars
    /\ [](\A o \in HandleIds :
             handles[o].st = "reborrowed" =>
                 /\ drops[handles[o].cid] <= 1
                 /\ handles[deref(o)].cid = handles[o].cid
                 /\ DestroyedOnceThrough(deref(o)))

\* a handle to a handle was reborrowed, the inner handle it returned was
\* dropped and both anchors are gone: one destruction
C14_Witness ==
    \E o \in HandleIds :
        /\ handles[o].st = "reborrowed"
        /\ handles[deref(o)].st = "dropped"
        /\ drops[handles[o].cid] = 1
        /\ \A a \in AnchorIds : anchors[a].st = "dropped"

\* the anchor's own record of whether it holds content: is_some, or the
\* Option of an IdentityAnchor being Some
Flag(a) ==
    IF anchors[a].kind = "identity" THEN anchors[a].content # 0
    ELSE anchors[a].is_some

\* C15: an anchor is created holding content; while it lives its flag
\* changes only from holds-content to drained and only in its first
\* borrow_move, which succeeds; every borrow_move leaves the anchor drained
\* and succeeds exactly when the anchor held content before.  Hence the
\* destruction, while unwinding, of the anchor that was borrowed twice runs
\* no destructor, and its content is destroyed at most once in all.
C15_AnchorMonotone ==
    /\ [][\A a \in AnchorIds :
             (anchors[a].st = "unused" /\ anchors'[a].st = "live") =>
                 Flag(a)' /\ anchors'[a].calls = 0]_vars
    /\ [][\A a \in AnchorIds :
             (anchors[a].st = "live" /\ Flag(a)' # Flag(a)) =>
                 /\ Flag(a) /\ ~Flag(a)'
                 /\ BorrowMoveStep(a)
                 /\ anchors[a].calls = 0
                 /\ last'.ok /\ ~panicked']_vars
    /\ [][\A a \in AnchorIds :
             BorrowMoveStep(a) =>
                 /\ ~Flag(a)'
                 /\ last'.ok <=> Flag(a)
                 /\ panicked' <=> ~Flag(a)
                 /\ drops' = drops]_vars
    /\ [][\A a \in AnchorIds :
             (AnchorDropStep(a) /\ panicked /\ a \in Misused) =>
                 /\ ~Flag(a)
                 /\ drops' = drops /\ mem' = mem]_vars
    /\ [](\A a \in Misused : drops[anchors[a].cid] <= 1)

\* the anchor borrowed twice was destroyed in the unwinding, after the handle
\* of its first borrow_move had destroyed the content: one destruction
C15_Witness ==
    /\ panicked
    /\ \E a \in Misused :
          /\ anchors[a].st = "dropped"
          /\ handles[anchors[a].out].st = "dropped"
          /\ drops[anchors[a].cid] = 1

\* the handle was decomposed with into_ptr and the pointer not wrapped again
Decomposed(h) == handles[h].st = "raw"

\* C16: while a handle obtained from a StackAnchor or BoxAnchor stays
\* decomposed, the content's destructor has not run and the content's bits
\* are still in place; the destruction of the anchor it came from runs no
\* destructor, and that of a BoxAnchor still frees the cell, so the content
\* is leaked with the cell gone.
C16_IntoPtrLeaks ==
    /\ [](\A a \in AnchorIds :
             (anchors[a].kind \in {"stack", "box"} /\ anchors[a].out # 0
              /\ Decomposed(anchors[a].out)) =>
                 /\ ~Flag(a)
                 /\ drops[anchors[a].cid] = 0
                 /\ mem[anchors[a].loc].init
                 /\ (anchors[a].kind = "box" /\ anchors[a].st = "dropped") =>
                        heap[Cell(a)] = "freed")
    /\ [][\A a \in AnchorIds :
             (AnchorDropStep(a) /\ anchors[a].out # 0
              /\ Decomposed(anchors[a].out)) =>
                 drops' = drops /\ mem' = mem]_vars

\* the handle of a box anchor was decomposed and never wrapped again, the
\* anchor is gone and its cell freed, and no destructor has run
C16_Witness ==
    \E a \in AnchorIds :
        /\ anchors[a].kind = "box" /\ anchors[a].st = "dropped"
        /\ anchors[a].out # 0 /\ Decomposed(anchors[a].out)
        /\ heap[Cell(a)] = "freed"
        /\ drops[anchors[a].cid] = 0

\* Debug output of a stack or heap anchor
Anchor_fmt(a) ==
    IF anchors[a].kind = "stack" THEN StackAnchor_fmt(a) ELSE BoxAnchor_fmt(a)

\* fmt(&self) can be called on the anchor
Formattable(a) ==
    /\ anchors[a].st = "live"
    /\ anchors[a].kind \in {"stack", "box"}
    /\ ~Borrowed(a)

\* C17: whenever a stack or heap anchor can be Debug-formatted, every
\* location the formatting reads is valid and initialised, the content is
\* read only if the anchor holds content (and then at the content's
\* location), and a drained anchor prints its is_some flag alone.
C17_FmtReadsHeldContent ==
    \A a \in AnchorIds :
        Formattable(a) =>
            /\ \A l \in FmtReads(Anchor_fmt(a)) : ValidLoc(l) /\ mem[l].init
            /\ FmtReads(Anchor_fmt(a)) # {} => Flag(a)
            /\ Flag(a) =>
                  /\ Len(Anchor_fmt(a)) = 3
                  /\ Anchor_fmt(a)[2] = <<"is_some", TRUE>>
                  /\ Anchor_fmt(a)[3] = <<"content", ContentLoc(a)>>
                  /\ mem[ContentLoc(a)].cid \in ContentIds =>
                         mem[ContentLoc(a)].val = cur[anchors[a].cid]
            /\ ~Flag(a) =>
                  /\ Len(Anchor_fmt(a)) = 2
                  /\ Anchor_fmt(a)[2] = <<"is_some", FALSE>>

\* a drained stack anchor whose content was already destroyed and a box
\* anchor that holds content can both be formatted
C17_Witness ==
    \E a, b \in AnchorIds :
        /\ Formattable(a) /\ anchors[a].kind = "stack"
        /\ ~Flag(a) /\ ~mem[anchors[a].loc].init
        /\ drops[anchors[a].cid] = 1
        /\ FmtReads(Anchor_fmt(a)) = {}
        /\ Formattable(b) /\ anchors[b].kind = "box"
        /\ Flag(b) /\ FmtReads(Anchor_fmt(b)) = {anchors[b].loc}

====
